---- MODULE Spec2Model ----
(***************************************************************************)
(* Model of the indexing and retrieval pipeline of backend/app:            *)
(*   vector_store.py  _shorten_for_embedding, build_index, search_similar  *)
(*   main.py          classify_question, ask                               *)
(*   indexing.py      extract_chunks_from_python_file, collect_all_chunks  *)
(* Texts are sequences of one-character strings.  A chunk carries the       *)
(* fields build_index reads (file_path, start_line, end_line, kind, name,  *)
(* code); signature and docstring are left out.  The generative model, the *)
(* embedding gateway and the Chroma collection are external: their         *)
(* answers, failures and rankings are nondeterministic choices.            *)
(***************************************************************************)
EXTENDS Integers, Sequences, FiniteSets, TLC

VARIABLES
    \* _shorten_for_embedding called on its own
    text, max_chars, shortened, shPc,
    \* the /ask handler (main.py)
    askPc, query, raw, mode, prompts, searchCalls, embedQueryCalls,
    matches, response,
    \* the Chroma collection "reddit_code": id -> stored entry
    collection,
    \* build_index (vector_store.py)
    buildPc, buildErr, buildNo, chunks, batch_size, i, embedCalls, addCalls,
    \* extract_chunks_from_python_file called on its own (indexing.py)
    srcFile, extractPc, extracted,
    \* collect_all_chunks (indexing.py)
    reddit_root_exists, files, limit_files, fileNo, all_chunks, total_files, files_with_chunks,
    collectPc

shVars == <<text, max_chars, shortened, shPc>>
askVars == <<askPc, query, raw, mode, prompts, searchCalls, embedQueryCalls,
             matches, response>>
buildVars == <<buildPc, buildErr, buildNo, chunks, batch_size, i, embedCalls,
               addCalls>>
extractVars == <<srcFile, extractPc, extracted>>
collectVars == <<reddit_root_exists, files, limit_files, fileNo, all_chunks, total_files,
                 files_with_chunks, collectPc>>
indexingVars == <<extractVars, collectVars>>
vars == <<shVars, askVars, collection, buildVars, indexingVars>>

(***************************************************************************)
(* Bounds                                                                  *)
(***************************************************************************)
MaxTextLen == 5
MaxCeiling == 3
MaxFrags == 4
MaxChunks == 3
MaxBatch == 2
MaxBuilds == 2
MaxNodes == 3
MaxLines == 3
MaxFiles == 3

(***************************************************************************)
(* Text helpers (Python str semantics)                                     *)
(***************************************************************************)
Whitespace == {" ", "\n", "\t"}

Max2(a, b) == IF a >= b THEN a ELSE b

Min2(a, b) == IF a <= b THEN a ELSE b

\* s[start:] for any integer start
PySliceFrom(s, start) ==
    LET n == Len(s)
        lo == IF start < 0 THEN Max2(n + start, 0) ELSE Min2(start, n)
    IN SubSeq(s, lo + 1, n)

\* s[:stop] for any integer stop
PySliceTo(s, stop) ==
    LET n == Len(s)
        hi == IF stop < 0 THEN Max2(n + stop, 0) ELSE Min2(stop, n)
    IN SubSeq(s, 1, hi)

RECURSIVE FirstKept(_, _)
\* the first position from p on that holds no whitespace, or Len(s) + 1
FirstKept(s, p) ==
    IF p > Len(s) THEN p
    ELSE IF s[p] \notin Whitespace THEN p ELSE FirstKept(s, p + 1)

RECURSIVE LastKept(_, _)
\* the last position up to p that holds no whitespace, or 0
LastKept(s, p) ==
    IF p < 1 THEN p
    ELSE IF s[p] \notin Whitespace THEN p ELSE LastKept(s, p - 1)

\* str.strip(): drop leading and trailing whitespace
strip(s) == SubSeq(s, FirstKept(s, 1), LastKept(s, Len(s)))

UpperChar(c) ==
    CASE c = "c" -> "C" [] c = "h" -> "H" [] c = "a" -> "A" [] c = "t" -> "T"
      [] c = "o" -> "O" [] c = "d" -> "D" [] c = "e" -> "E" [] c = "x" -> "X"
      [] c = "b" -> "B"
      [] OTHER -> c

\* str.upper()
upper(s) == [p \in 1..Len(s) |-> UpperChar(s[p])]

\* sub in s
Contains(s, sub) ==
    \E p \in 0..(Len(s) - Len(sub)) : SubSeq(s, p + 1, p + Len(sub)) = sub

\* all texts over alphabet A of length at most n
TextsUpTo(A, n) == UNION {[1..k -> A] : k \in 0..n}

(***************************************************************************)
(* vector_store.py: _shorten_for_embedding                                 *)
(***************************************************************************)
MAX_CHARS_FOR_EMBEDDING == 500

TRUNCATED_MARKER ==
    <<"\n", ".", ".", ".", "\n", "#", " ", "[", "T", "R", "U", "N", "C", "A",
      "T", "E", "D", "]", "\n", ".", ".", ".", "\n">>

shorten_for_embedding(t, limit) ==
    LET s == strip(t)
    IN IF Len(s) <= limit THEN s
       ELSE LET half == limit \div 2
                head == PySliceTo(s, half)
                tail == PySliceFrom(s, 0 - half)
            IN head \o TRUNCATED_MARKER \o tail

ShortenAlphabet == {"a", "b", " "}

ShortenInit ==
    /\ text \in TextsUpTo(ShortenAlphabet, MaxTextLen)
    /\ max_chars \in 0..MaxCeiling
    /\ shortened = <<>>
    /\ shPc = "call"

ShortenIdle ==
    /\ text = <<>>
    /\ max_chars = 0
    /\ shortened = <<>>
    /\ shPc = "off"

ShortenCall ==
    /\ shPc = "call"
    /\ shortened' = shorten_for_embedding(text, max_chars)
    /\ shPc' = "ret"
    /\ UNCHANGED <<text, max_chars>>
    /\ UNCHANGED <<askVars, collection, buildVars, indexingVars>>

(***************************************************************************)
(* main.py: classify_question                                              *)
(***************************************************************************)
CODE == <<"C", "O", "D", "E">>

CHAT == <<"C", "H", "A", "T">>

NoneRaw == [isNone |-> TRUE, text |-> <<>>]

Str(t) == [isNone |-> FALSE, text |-> t]

\* mutant: an answer naming both classes is taken as CHAT
classify_question_chat_first(r) ==
    IF r.isNone \/ r.text = <<>> THEN "CODE"
    ELSE IF Contains(upper(strip(r.text)), CHAT) THEN "CHAT" ELSE "CODE"

\* the decision taken on the classifier's raw response (lines 91-106)
classify_question(r) ==
    IF r.isNone \/ r.text = <<>> THEN "CODE"
    ELSE LET normalized == upper(strip(r.text))
         IN IF Contains(normalized, CODE) /\ ~Contains(normalized, CHAT)
               THEN "CODE"
            ELSE IF Contains(normalized, CHAT) /\ ~Contains(normalized, CODE)
               THEN "CHAT"
            ELSE "CODE"

(***************************************************************************)
(* Chunks handed to build_index                                            *)
(***************************************************************************)
ShortCode == <<"d", "e", "f">>

\* longer than the ceiling by two characters, with a distinctive middle
LongCode ==
    [n \in 1..(MAX_CHARS_FOR_EMBEDDING + 2) |->
        IF n = (MAX_CHARS_FOR_EMBEDDING \div 2) + 1 THEN "x"
        ELSE IF n % 2 = 1 THEN "a" ELSE "b"]

ChunkCodes == {ShortCode, LongCode}

ChunkSpans == {<<1, 1>>, <<1, 2>>}

MkChunk(path, span, kind, name, code) ==
    [file_path |-> path, start_line |-> span[1], end_line |-> span[2],
     kind |-> kind, name |-> name, code |-> code]

ChunkUniverse ==
    {MkChunk("a.py", sp, "function", "foo", c) : sp \in ChunkSpans, c \in ChunkCodes}

ChunkLists == UNION {[1..n -> ChunkUniverse] : n \in 0..MaxChunks}

(***************************************************************************)
(* embeddings.py: the gateway, a function of the text it is given          *)
(***************************************************************************)
embed_text(t) == <<"vec", t>>

embed_texts(ts) == [n \in 1..Len(ts) |-> embed_text(ts[n])]

(***************************************************************************)
(* vector_store.py: build_index                                            *)
(***************************************************************************)
\* f"{ch.file_path}:{ch.start_line}-{ch.end_line}" (line 68)
ChunkId(ch) == <<ch.file_path, ":", ch.start_line, "-", ch.end_line>>

\* lines 70-79
ChunkMeta(ch) ==
    [file_path |-> ch.file_path, kind |-> ch.kind, name |-> ch.name,
     start_line |-> ch.start_line, end_line |-> ch.end_line,
     language |-> "python"]

\* s[lo : lo + n] with 0-based lo
PySlice(s, lo, n) == SubSeq(s, lo + 1, Min2(lo + n, Len(s)))

ids == [n \in 1..Len(chunks) |-> ChunkId(chunks[n])]

documents == [n \in 1..Len(chunks) |-> chunks[n].code]

metadatas == [n \in 1..Len(chunks) |-> ChunkMeta(chunks[n])]

total == Len(documents)

batch_docs_full == PySlice(documents, i, batch_size)

batch_ids == PySlice(ids, i, batch_size)

batch_meta == PySlice(metadatas, i, batch_size)

\* line 90
batch_docs_short ==
    [n \in 1..Len(batch_docs_full) |->
        shorten_for_embedding(batch_docs_full[n], MAX_CHARS_FOR_EMBEDDING)]

\* mutant: the full texts are stored
AddedDocumentsFull == batch_docs_full

\* the documents argument of collection.add (line 99)
AddedDocuments == batch_docs_short

HasDuplicates(s) == \E m, n \in 1..Len(s) : m < n /\ s[m] = s[n]

\* Collection.add: ids already in the collection are left as they are
CollectionAdd(col, idList, docs, metas, embs) ==
    LET fresh == {n \in 1..Len(idList) : idList[n] \notin DOMAIN col}
        newIds == {idList[n] : n \in fresh}
        at(x) == CHOOSE n \in fresh : idList[n] = x
    IN [x \in DOMAIN col \cup newIds |->
          IF x \in DOMAIN col THEN col[x]
          ELSE [document |-> docs[at(x)], metadata |-> metas[at(x)],
                embedding |-> embs[at(x)]]]

EmptyCollection == [x \in {} |-> 0]

BuildIdle ==
    /\ buildPc = "idle"
    /\ buildErr = "none"
    /\ buildNo = 0
    /\ chunks = <<>>
    /\ batch_size = 1
    /\ i = 0
    /\ embedCalls = 0
    /\ addCalls = 0

\* build_index(chunks, batch_size) is called; lines 61-82
BuildStart ==
    /\ buildPc = "idle"
    /\ askPc = "idle"
    /\ buildNo < MaxBuilds
    /\ \E cs \in ChunkLists, b \in 1..MaxBatch :
          /\ chunks' = cs
          /\ batch_size' = b
    /\ buildNo' = buildNo + 1
    /\ buildPc' = "loop"
    /\ buildErr' = "none"
    /\ i' = 0
    /\ embedCalls' = 0
    /\ addCalls' = 0
    /\ UNCHANGED <<shVars, askVars, collection, indexingVars>>

\* mutant: the loop steps one chunk too far after each batch
BuildBatchStepsTooFar ==
    /\ buildPc = "loop"
    /\ i < total
    /\ ~HasDuplicates(batch_ids)
    /\ embedCalls' = embedCalls + 1
    /\ addCalls' = addCalls + 1
    /\ collection' = CollectionAdd(collection, batch_ids, AddedDocuments,
                                    batch_meta, embed_texts(batch_docs_short))
    /\ i' = i + batch_size + 1
    /\ UNCHANGED <<buildPc, buildErr, buildNo, chunks, batch_size>>
    /\ UNCHANGED <<shVars, askVars, indexingVars>>

\* a batch: embed_texts succeeds, then collection.add succeeds (lines 85-102)
BuildBatch ==
    /\ buildPc = "loop"
    /\ i < total
    /\ ~HasDuplicates(batch_ids)
    /\ embedCalls' = embedCalls + 1
    /\ addCalls' = addCalls + 1
    /\ collection' = CollectionAdd(collection, batch_ids, AddedDocuments,
                                    batch_meta, embed_texts(batch_docs_short))
    /\ i' = i + batch_size
    /\ UNCHANGED <<buildPc, buildErr, buildNo, chunks, batch_size>>
    /\ UNCHANGED <<shVars, askVars, indexingVars>>

\* mutant: the failing batch is skipped and the loop goes on
BuildEmbedFailSkipped ==
    /\ buildPc = "loop"
    /\ i < total
    /\ embedCalls' = embedCalls + 1
    /\ i' = i + batch_size
    /\ UNCHANGED <<buildPc, buildErr, buildNo, chunks, batch_size, addCalls,
                   collection>>
    /\ UNCHANGED <<shVars, askVars, indexingVars>>

\* embed_texts raises (line 93): nothing catches it
BuildEmbedFail ==
    /\ buildPc = "loop"
    /\ i < total
    /\ embedCalls' = embedCalls + 1
    /\ buildPc' = "raised"
    /\ buildErr' = "EmbeddingError"
    /\ UNCHANGED <<buildNo, chunks, batch_size, i, addCalls, collection>>
    /\ UNCHANGED <<shVars, askVars, indexingVars>>

\* collection.add raises (line 97): a store failure, or an id repeated
\* within the batch (DuplicateIDError)
BuildAddFail ==
    /\ buildPc = "loop"
    /\ i < total
    /\ embedCalls' = embedCalls + 1
    /\ addCalls' = addCalls + 1
    /\ buildPc' = "raised"
    /\ buildErr' = IF HasDuplicates(batch_ids) THEN "DuplicateIDError"
                   ELSE "StoreError"
    /\ UNCHANGED <<buildNo, chunks, batch_size, i, collection>>
    /\ UNCHANGED <<shVars, askVars, indexingVars>>

\* the loop is over; line 104 reads i and batch_docs_short, which are unbound
\* when the loop body never ran
BuildFinish ==
    /\ buildPc = "loop"
    /\ i >= total
    /\ IF total = 0
          THEN buildPc' = "raised" /\ buildErr' = "UnboundLocalError"
          ELSE buildPc' = "done" /\ buildErr' = "none"
    /\ UNCHANGED <<buildNo, chunks, batch_size, i, embedCalls, addCalls,
                   collection>>
    /\ UNCHANGED <<shVars, askVars, indexingVars>>

\* build_index has returned or raised: its frame is gone
BuildReturn ==
    /\ buildPc \in {"done", "raised"}
    /\ buildPc' = "idle"
    /\ buildErr' = "none"
    /\ chunks' = <<>>
    /\ batch_size' = 1
    /\ i' = 0
    /\ embedCalls' = 0
    /\ addCalls' = 0
    /\ UNCHANGED <<buildNo, collection>>
    /\ UNCHANGED <<shVars, askVars, indexingVars>>

(***************************************************************************)
(* vector_store.py: search_similar                                         *)
(***************************************************************************)
\* the k of search_similar(query, k=5) in ask
K == 5

\* Collection.query: min(k, count) distinct ids in some rank order
QueryResults(col, k) ==
    LET n == Min2(k, Cardinality(DOMAIN col))
    IN {r \in [1..n -> DOMAIN col] : \A a, b \in 1..n : a # b => r[a] # r[b]}

\* lines 122-136
MatchesOf(col, ranked) ==
    [n \in 1..Len(ranked) |->
        [id |-> ranked[n], document |-> col[ranked[n]].document,
         metadata |-> col[ranked[n]].metadata]]

(***************************************************************************)
(* main.py: ask                                                            *)
(***************************************************************************)
Questions == {"q1"}

RawResponses ==
    {NoneRaw, Str(<<>>), Str(CODE), Str(<<" ", "c", "h", "a", "t", "\n">>),
     Str(CODE \o <<" ">> \o CHAT), Str(<<"x">>)}

\* all concatenations of at most MaxFrags fragments
Fragments ==
    {<<"C", "H">>, <<"A", "T">>, <<"C", "O">>, <<"D", "E">>, <<"c", "h">>,
     <<"a", "t">>, <<" ">>, <<"x">>}

RECURSIVE Concat(_)
Concat(fs) == IF fs = <<>> THEN <<>> ELSE Head(fs) \o Concat(Tail(fs))

RawInputs ==
    {NoneRaw} \cup
    {Str(Concat(fs)) : fs \in UNION {[1..n -> Fragments] : n \in 0..MaxFrags}}

NoResponse == [answer |-> "", snippets |-> <<>>, mode |-> "none"]

AskIdle ==
    /\ askPc = "idle"
    /\ query = ""
    /\ raw = NoneRaw
    /\ mode = "none"
    /\ prompts = <<>>
    /\ searchCalls = 0
    /\ embedQueryCalls = 0
    /\ matches = <<>>
    /\ response = NoResponse

\* mutant: retrieval runs whatever the classification
AfterClassifyAlwaysSearch(m) == "search"

\* line 113: the branch taken on the classification
AfterClassify(m) == IF m = "CHAT" THEN "chat" ELSE "search"

\* lines 129-134
SnippetOf(m) ==
    [file_path |-> m.metadata.file_path, start_line |-> m.metadata.start_line,
     end_line |-> m.metadata.end_line, code |-> m.document]

\* mutant: the snippets come out in reverse rank order
SnippetsOfReversed(ms) == [n \in 1..Len(ms) |-> SnippetOf(ms[Len(ms) + 1 - n])]

\* lines 123-135
SnippetsOf(ms) == [n \in 1..Len(ms) |-> SnippetOf(ms[n])]

\* POST /ask arrives (line 110)
AskReceive ==
    /\ askPc = "idle"
    /\ buildPc = "idle"
    /\ \E q \in Questions : query' = q
    /\ askPc' = "classify"
    /\ UNCHANGED <<raw, mode, prompts, searchCalls, embedQueryCalls, matches,
                   response>>
    /\ UNCHANGED <<shVars, collection, buildVars, indexingVars>>

\* classify_question: one generative call, its answer drawn from S (line 111)
AskClassify(S) ==
    /\ askPc = "classify"
    /\ \E r \in S :
          /\ raw' = r
          /\ mode' = classify_question(r)
          /\ askPc' = AfterClassify(classify_question(r))
    /\ prompts' = Append(prompts, [kind |-> "classify", question |-> query])
    /\ UNCHANGED <<query, searchCalls, embedQueryCalls, matches, response>>
    /\ UNCHANGED <<shVars, collection, buildVars, indexingVars>>

\* lines 114-119
AskChat ==
    /\ askPc = "chat"
    /\ prompts' = Append(prompts, [kind |-> "general", question |-> query])
    /\ response' = [answer |-> "generated", snippets |-> <<>>, mode |-> "CHAT"]
    /\ askPc' = "done"
    /\ UNCHANGED <<query, raw, mode, searchCalls, embedQueryCalls, matches>>
    /\ UNCHANGED <<shVars, collection, buildVars, indexingVars>>

\* line 121: search_similar embeds the query and queries the collection
AskSearch ==
    /\ askPc = "search"
    /\ searchCalls' = searchCalls + 1
    /\ embedQueryCalls' = embedQueryCalls + 1
    /\ \E ranked \in QueryResults(collection, K) :
          matches' = MatchesOf(collection, ranked)
    /\ askPc' = "answer"
    /\ UNCHANGED <<query, raw, mode, prompts, response>>
    /\ UNCHANGED <<shVars, collection, buildVars, indexingVars>>

\* lines 123-223
AskAnswer ==
    /\ askPc = "answer"
    /\ LET snippets == SnippetsOf(matches)
       IN IF snippets = <<>>
             THEN /\ prompts' = Append(prompts, [kind |-> "fallback",
                                                 question |-> query])
                  /\ response' = [answer |-> "generated", snippets |-> <<>>,
                                  mode |-> "CODE"]
             ELSE /\ prompts' = Append(prompts, [kind |-> "grounded",
                                                 question |-> query,
                                                 context |-> snippets])
                  /\ response' = [answer |-> "generated",
                                  snippets |-> snippets, mode |-> "CODE"]
    /\ askPc' = "done"
    /\ UNCHANGED <<query, raw, mode, searchCalls, embedQueryCalls, matches>>
    /\ UNCHANGED <<shVars, collection, buildVars, indexingVars>>

\* ask_gigachat raises: nothing in ask catches it
AskGenerateFail ==
    /\ askPc \in {"classify", "chat", "answer"}
    /\ askPc' = "raised"
    /\ UNCHANGED <<query, raw, mode, prompts, searchCalls, embedQueryCalls,
                   matches, response>>
    /\ UNCHANGED <<shVars, collection, buildVars, indexingVars>>

\* embed_text or collection.query raises inside search_similar
AskSearchFail ==
    /\ askPc = "search"
    /\ searchCalls' = searchCalls + 1
    /\ embedQueryCalls' = embedQueryCalls + 1
    /\ askPc' = "raised"
    /\ UNCHANGED <<query, raw, mode, prompts, matches, response>>
    /\ UNCHANGED <<shVars, collection, buildVars, indexingVars>>

\* the handler has returned its response or raised: its frame is gone
AskReturn ==
    /\ askPc \in {"done", "raised"}
    /\ askPc' = "idle"
    /\ query' = ""
    /\ raw' = NoneRaw
    /\ mode' = "none"
    /\ prompts' = <<>>
    /\ searchCalls' = 0
    /\ embedQueryCalls' = 0
    /\ matches' = <<>>
    /\ response' = NoResponse
    /\ UNCHANGED <<shVars, collection, buildVars, indexingVars>>

(***************************************************************************)
(* indexing.py: source files and their syntax trees                        *)
(* A tree is the sequence of its nodes below the root, numbered in         *)
(* depth-first pre-order; parent 0 is the root (module) node.  The text of *)
(* a node is represented by the node's place in its file.                  *)
(***************************************************************************)
NodeTypes == {"class_definition", "function_definition", "other"}

DeclTypes == {"class_definition", "function_definition"}

RECURSIVE AncestorsOrSelf(_, _)
AncestorsOrSelf(nodes, n) ==
    IF n = 0 THEN {0} ELSE {n} \cup AncestorsOrSelf(nodes, nodes[n].parent)

\* a node may follow the nodes t as the next one in pre-order and source
\* order: inside its parent's span, not before its previous sibling's end,
\* and, a def or class statement opening its own line, on a later line than
\* every declaration before it
FitsAfter(t, nd, lines) ==
    /\ nd.parent \in (IF t = <<>> THEN {0} ELSE AncestorsOrSelf(t, Len(t)))
    /\ 1 <= nd.start_line /\ nd.start_line <= nd.end_line /\ nd.end_line <= lines
    /\ nd.parent # 0 =>
          /\ t[nd.parent].start_line <= nd.start_line
          /\ nd.end_line <= t[nd.parent].end_line
    /\ \A m \in 1..Len(t) :
          /\ t[m].parent = nd.parent => t[m].end_line <= nd.start_line
          /\ (t[m].type \in DeclTypes /\ nd.type \in DeclTypes) =>
                t[m].start_line < nd.start_line

PathA(under) ==
    [under_root |-> under, rel |-> "a.py", abs |-> "/tmp/a.py", name |-> "a.py"]

MkFile(p, ok, bad, lines, nodes) ==
    [path |-> p, readable |-> ok, has_error |-> bad, lines |-> lines,
     nodes |-> nodes]

(***************************************************************************)
(* indexing.py: extract_chunks_from_python_file                            *)
(***************************************************************************)
\* lines 44-49
try_relative_path(p) == IF p.under_root THEN p.rel ELSE p.abs

\* node_text(source, node): the node's slice of the file
node_text(f, n) == <<"text", f.path.name, n>>

\* the text of the node's first identifier child
NodeName(f, n) == <<"identifier", f.path.name, n>>

\* node.children, in order
Children(f, node) ==
    LET S == {n \in 1..Len(f.nodes) : f.nodes[n].parent = node}
    IN [k \in 1..Cardinality(S) |->
          CHOOSE x \in S : Cardinality({y \in S : y < x}) = k - 1]

\* lines 97-108
FileChunk(f) ==
    [file_path |-> try_relative_path(f.path), start_line |-> 1,
     end_line |-> f.lines, kind |-> "file", name |-> f.path.name,
     code |-> <<"source", f.path.name>>]

\* lines 129-140 and 160-171
NodeChunk(f, n, kind) ==
    [file_path |-> try_relative_path(f.path),
     start_line |-> f.nodes[n].start_line, end_line |-> f.nodes[n].end_line,
     kind |-> kind, name |-> NodeName(f, n), code |-> node_text(f, n)]

RECURSIVE walk(_, _, _), walk_children(_, _, _)

\* mutant: the walk does not descend into a function
visit_child_flat(f, child, parent_kind) ==
    IF f.nodes[child].type = "class_definition"
      THEN <<NodeChunk(f, child, "class")>> \o walk(f, child, "class")
    ELSE IF f.nodes[child].type = "function_definition"
      THEN <<NodeChunk(f, child,
                       IF parent_kind = "class" THEN "method" ELSE "function")>>
    ELSE walk(f, child, parent_kind)

\* mutant: going through a node that is no declaration forgets parent_kind
visit_child_forgetful(f, child, parent_kind) ==
    IF f.nodes[child].type = "class_definition"
      THEN <<NodeChunk(f, child, "class")>> \o walk(f, child, "class")
    ELSE IF f.nodes[child].type = "function_definition"
      THEN LET kind == IF parent_kind = "class" THEN "method" ELSE "function"
           IN <<NodeChunk(f, child, kind)>> \o walk(f, child, kind)
    ELSE walk(f, child, "None")

\* one turn of the loop over node.children (lines 116-176)
visit_child(f, child, parent_kind) ==
    IF f.nodes[child].type = "class_definition"
      THEN <<NodeChunk(f, child, "class")>> \o walk(f, child, "class")
    ELSE IF f.nodes[child].type = "function_definition"
      THEN LET kind == IF parent_kind = "class" THEN "method" ELSE "function"
           IN <<NodeChunk(f, child, kind)>> \o walk(f, child, kind)
    ELSE walk(f, child, parent_kind)

walk_children(f, kids, parent_kind) ==
    IF kids = <<>> THEN <<>>
    ELSE visit_child(f, Head(kids), parent_kind)
           \o walk_children(f, Tail(kids), parent_kind)

\* lines 113-176
walk(f, node, parent_kind) == walk_children(f, Children(f, node), parent_kind)

\* lines 86-179, for a file that can be read
extract_chunks_from_python_file(f) == <<FileChunk(f)>> \o walk(f, 0, "None")

ExtractIdle ==
    /\ srcFile = MkFile(PathA(TRUE), TRUE, FALSE, 1, <<>>)
    /\ extractPc = "off"
    /\ extracted = <<>>

\* a file of 1..MaxLines lines, inside or outside REDDIT_ROOT, that can be
\* read or not; its tree is grown node by node by ParseNode
ExtractInit ==
    /\ \E under \in BOOLEAN, ok \in BOOLEAN, lines \in 1..MaxLines :
          srcFile = MkFile(PathA(under), ok, FALSE, lines, <<>>)
    /\ extractPc = "call"
    /\ extracted = <<>>

\* parser.parse (line 87): the tree has one more node
ParseNode ==
    /\ extractPc = "call"
    /\ srcFile.readable
    /\ Len(srcFile.nodes) < MaxNodes
    /\ \E nd \in [type : NodeTypes, parent : 0..Len(srcFile.nodes),
                   start_line : 1..srcFile.lines, end_line : 1..srcFile.lines] :
          /\ FitsAfter(srcFile.nodes, nd, srcFile.lines)
          /\ srcFile' = [srcFile EXCEPT !.nodes = Append(@, nd)]
    /\ UNCHANGED <<extractPc, extracted>>
    /\ UNCHANGED <<shVars, askVars, collection, buildVars, collectVars>>

\* the file is read and parsed, the chunks are returned
ExtractReturn ==
    /\ extractPc = "call"
    /\ srcFile.readable
    /\ extracted' = extract_chunks_from_python_file(srcFile)
    /\ extractPc' = "done"
    /\ UNCHANGED srcFile
    /\ UNCHANGED <<shVars, askVars, collection, buildVars, collectVars>>

\* path.read_bytes() raises (line 86): nothing catches it
ExtractRaise ==
    /\ extractPc = "call"
    /\ ~srcFile.readable
    /\ extractPc' = "raised"
    /\ UNCHANGED <<srcFile, extracted>>
    /\ UNCHANGED <<shVars, askVars, collection, buildVars, collectVars>>

(***************************************************************************)
(* indexing.py: collect_all_chunks                                         *)
(***************************************************************************)
MkPath(nm) == [under_root |-> TRUE, rel |-> nm, abs |-> nm, name |-> nm]

MkNode(ty, par, lo, hi) ==
    [type |-> ty, parent |-> par, start_line |-> lo, end_line |-> hi]

\* one function; a class with a method; an unreadable file; a file with a
\* syntax error, whose tree holds an ERROR node around a function
SampleFiles ==
    {MkFile(MkPath("a.py"), TRUE, FALSE, 3,
            <<MkNode("function_definition", 0, 1, 2)>>),
     MkFile(MkPath("b.py"), TRUE, FALSE, 4,
            <<MkNode("class_definition", 0, 1, 3),
              MkNode("other", 1, 2, 3),
              MkNode("function_definition", 2, 2, 3)>>),
     MkFile(MkPath("c.py"), FALSE, FALSE, 1, <<>>),
     MkFile(MkPath("d.py"), TRUE, TRUE, 2,
            <<MkNode("ERROR", 0, 1, 1),
              MkNode("function_definition", 1, 1, 1)>>)}

\* what iter_code_files can yield: distinct files in some order
FileLists ==
    {fs \in UNION {[1..n -> SampleFiles] : n \in 0..MaxFiles} :
        \A a, b \in 1..Len(fs) : a # b => fs[a] # fs[b]}

NoLimit == [isNone |-> TRUE, value |-> 0]

Limits == {NoLimit} \cup {[isNone |-> FALSE, value |-> v] : v \in 0..MaxFiles}

CollectIdle ==
    /\ reddit_root_exists = TRUE
    /\ files = <<>>
    /\ limit_files = NoLimit
    /\ fileNo = 0
    /\ all_chunks = <<>>
    /\ total_files = 0
    /\ files_with_chunks = 0
    /\ collectPc = "off"

CollectInit ==
    /\ reddit_root_exists \in BOOLEAN
    /\ files \in FileLists
    /\ limit_files \in Limits
    /\ fileNo = 0
    /\ all_chunks = <<>>
    /\ total_files = 0
    /\ files_with_chunks = 0
    /\ collectPc = "call"

\* lines 187-193
CollectEnter ==
    /\ collectPc = "call"
    /\ collectPc' = IF reddit_root_exists THEN "loop" ELSE "done"
    /\ UNCHANGED <<reddit_root_exists, files, limit_files, fileNo, all_chunks,
                   total_files, files_with_chunks>>
    /\ UNCHANGED <<shVars, askVars, collection, buildVars, extractVars>>

\* line 196
LimitReached == ~limit_files.isNone /\ fileNo >= limit_files.value

\* one turn of the loop on a file that can be read (lines 195-204)
CollectFile ==
    /\ collectPc = "loop"
    /\ fileNo < Len(files)
    /\ ~LimitReached
    /\ files[fileNo + 1].readable
    /\ LET got == extract_chunks_from_python_file(files[fileNo + 1])
       IN /\ all_chunks' = all_chunks \o got
          /\ files_with_chunks' =
                IF got # <<>> THEN files_with_chunks + 1 ELSE files_with_chunks
    /\ total_files' = total_files + 1
    /\ fileNo' = fileNo + 1
    /\ UNCHANGED <<reddit_root_exists, files, limit_files, collectPc>>
    /\ UNCHANGED <<shVars, askVars, collection, buildVars, extractVars>>

\* extract_chunks_from_python_file raises on a file that cannot be read
\* (line 200): nothing catches it
CollectRaise ==
    /\ collectPc = "loop"
    /\ fileNo < Len(files)
    /\ ~LimitReached
    /\ ~files[fileNo + 1].readable
    /\ total_files' = total_files + 1
    /\ collectPc' = "raised"
    /\ UNCHANGED <<reddit_root_exists, files, limit_files, fileNo, all_chunks,
                   files_with_chunks>>
    /\ UNCHANGED <<shVars, askVars, collection, buildVars, extractVars>>

\* the loop ends, all_chunks is returned (lines 206-210)
CollectReturn ==
    /\ collectPc = "loop"
    /\ fileNo >= Len(files) \/ LimitReached
    /\ collectPc' = "done"
    /\ UNCHANGED <<reddit_root_exists, files, limit_files, fileNo, all_chunks,
                   total_files, files_with_chunks>>
    /\ UNCHANGED <<shVars, askVars, collection, buildVars, extractVars>>

(***************************************************************************)
(* Specifications                                                          *)
(***************************************************************************)
\* index builds and /ask requests against one collection
Init ==
    /\ ShortenIdle
    /\ AskIdle
    /\ BuildIdle
    /\ collection = EmptyCollection
    /\ ExtractIdle
    /\ CollectIdle

Next ==
    \/ BuildStart
    \/ BuildBatch
    \/ BuildEmbedFail
    \/ BuildAddFail
    \/ BuildFinish
    \/ BuildReturn
    \/ AskReceive
    \/ AskClassify(RawResponses)
    \/ AskChat
    \/ AskSearch
    \/ AskAnswer
    \/ AskGenerateFail
    \/ AskSearchFail
    \/ AskReturn

Spec == Init /\ [][Next]_vars

\* _shorten_for_embedding on every bounded text and ceiling
InitShorten ==
    /\ ShortenInit
    /\ AskIdle
    /\ BuildIdle
    /\ collection = EmptyCollection
    /\ ExtractIdle
    /\ CollectIdle

NextShorten == ShortenCall

SpecShorten == InitShorten /\ [][NextShorten]_vars

\* classify_question on every bounded raw response
NextClassify ==
    \/ AskReceive
    \/ AskClassify(RawInputs)

SpecClassify == Init /\ [][NextClassify]_vars

\* extract_chunks_from_python_file on every bounded tree
InitExtract ==
    /\ ShortenIdle
    /\ AskIdle
    /\ BuildIdle
    /\ collection = EmptyCollection
    /\ ExtractInit
    /\ CollectIdle

NextExtract ==
    \/ ParseNode
    \/ ExtractReturn
    \/ ExtractRaise

SpecExtract == InitExtract /\ [][NextExtract]_vars

\* collect_all_chunks over the sample directory
InitCollect ==
    /\ ShortenIdle
    /\ AskIdle
    /\ BuildIdle
    /\ collection = EmptyCollection
    /\ ExtractIdle
    /\ CollectInit

NextCollect ==
    \/ CollectEnter
    \/ CollectFile
    \/ CollectRaise
    \/ CollectReturn

SpecCollect == InitCollect /\ [][NextCollect]_vars

(***************************************************************************)
(* Properties                                                              *)
(***************************************************************************)
\* token occurs in t when letter case is ignored
ContainsIgnoringCase(t, token) ==
    \E p \in 0..(Len(t) - Len(token)) :
        \A j \in 1..Len(token) : UpperChar(t[p + j]) = token[j]

\* C1: classify_question returns CHAT exactly when the response, upper-cased,
\* contains CHAT and does not contain CODE; every other response (only CODE,
\* both, neither, empty, missing) gives CODE.
C1_ChatIffOnlyChatToken ==
    askPc \in {"chat", "search"} =>
        /\ mode \in {"CODE", "CHAT"}
        /\ mode = "CHAT" <=>
              /\ ~raw.isNone
              /\ ContainsIgnoringCase(raw.text, CHAT)
              /\ ~ContainsIgnoringCase(raw.text, CODE)

\* a lower-case, padded "chat" was classified CHAT
C1_Witness ==
    /\ askPc = "chat"
    /\ mode = "CHAT"
    /\ raw = Str(<<" ", "c", "h", "a", "t">>)

\* C2: while a request classified CHAT is handled, search_similar and the
\* query embedding are never invoked; the handler makes exactly one further
\* generative call, carrying the raw question, and returns mode CHAT with no
\* snippets.
C2_ChatSkipsRetrieval ==
    mode = "CHAT" =>
        /\ searchCalls = 0
        /\ embedQueryCalls = 0
        /\ matches = <<>>
        /\ askPc \in {"chat", "done", "raised"}
        /\ askPc = "done" =>
              /\ Len(prompts) = 2
              /\ prompts[2] = [kind |-> "general", question |-> query]
              /\ response.mode = "CHAT"
              /\ response.snippets = <<>>

\* a CHAT request was answered while the collection held entries
C2_Witness ==
    /\ askPc = "done"
    /\ mode = "CHAT"
    /\ collection # EmptyCollection

\* C3: a request classified CODE that returns has queried the collection
\* exactly once and returns mode CODE with one snippet per match, in rank
\* order, carrying the match's file_path, start_line, end_line and stored
\* document; with no match the snippets are empty and the fallback prompt
\* was used.
C3_CodeQueriesOnce ==
    (askPc = "done" /\ mode = "CODE") =>
        /\ searchCalls = 1
        /\ response.mode = "CODE"
        /\ Len(response.snippets) = Len(matches)
        /\ \A n \in 1..Len(matches) :
              /\ matches[n].id \in DOMAIN collection
              /\ response.snippets[n] =
                    [file_path |-> collection[matches[n].id].metadata.file_path,
                     start_line |-> collection[matches[n].id].metadata.start_line,
                     end_line |-> collection[matches[n].id].metadata.end_line,
                     code |-> collection[matches[n].id].document]
        /\ prompts[Len(prompts)].kind =
              IF matches = <<>> THEN "fallback" ELSE "grounded"

\* a CODE request returned two snippets
C3_Witness ==
    /\ askPc = "done"
    /\ mode = "CODE"
    /\ Len(response.snippets) = 2

\* C4 (as claimed): after a rebuild completes, every id of its chunk list
\* holds the document this run wrote for it (an existing id is replaced).
C4_RebuildReplaces ==
    (buildPc = "done" /\ buildNo >= 2) =>
        \A n \in 1..Len(chunks) :
            /\ ids[n] \in DOMAIN collection
            /\ \E m \in 1..Len(chunks) :
                  /\ ids[m] = ids[n]
                  /\ collection[ids[n]].document =
                        shorten_for_embedding(chunks[m].code,
                                              MAX_CHARS_FOR_EMBEDDING)

\* C5 (as claimed): after a first build of chunks with distinct ids, the
\* document stored under each chunk's id is the chunk's full code.
C5_StoredDocumentIsFull ==
    (buildPc = "done" /\ buildNo = 1 /\ ~HasDuplicates(ids)) =>
        \A n \in 1..Len(chunks) : collection[ids[n]].document = chunks[n].code

\* C5 (amended): every entry build_index writes holds the shaped text
\* _shorten_for_embedding(code) of the chunk it was written from, and the
\* embedding computed from that same shaped text; the code of a query-time
\* snippet is that stored, shaped text.
C5_StoredDocumentIsShaped ==
    /\ [][\A x \in (DOMAIN collection') \ (DOMAIN collection) :
            \E n \in 1..Len(batch_ids) :
                /\ batch_ids[n] = x
                /\ collection'[x].document =
                      shorten_for_embedding(batch_docs_full[n],
                                            MAX_CHARS_FOR_EMBEDDING)
                /\ collection'[x].embedding =
                      embed_text(shorten_for_embedding(batch_docs_full[n],
                                                       MAX_CHARS_FOR_EMBEDDING))
                /\ collection'[x].metadata = batch_meta[n]]_vars
    /\ [](askPc = "done" =>
            \A n \in 1..Len(response.snippets) :
                response.snippets[n].code = collection[matches[n].id].document)

\* a snippet was returned whose code is the truncated form of a long chunk
C5_Witness ==
    /\ askPc = "done"
    /\ \E n \in 1..Len(response.snippets) :
          /\ response.snippets[n].code =
                shorten_for_embedding(LongCode, MAX_CHARS_FOR_EMBEDDING)
          /\ response.snippets[n].code # LongCode

BatchErrors == {"EmbeddingError", "StoreError", "DuplicateIDError"}

\* number of batches wholly before position n
BatchesBefore(n) == n \div batch_size

\* C9 (as claimed): a first build that aborts on a failing batch does not
\* leave the collection holding just the chunks of the earlier batches.
C9_NoPartialIndex ==
    (buildPc = "raised" /\ buildErr \in BatchErrors /\ buildNo = 1 /\ i > 0) =>
        DOMAIN collection # {ids[n] : n \in 1..i}

\* C9 (amended): a failing embedding call or store write ends the build at
\* that batch: the batch is not written, no later batch is embedded or
\* written, and a build that completes has written every batch; the
\* entries of the batches before the failure stay in the collection.
C9_AbortKeepsEarlierBatches ==
    /\ (buildPc = "raised" /\ buildErr \in BatchErrors) =>
          /\ i < total
          /\ embedCalls = BatchesBefore(i) + 1
          /\ addCalls = BatchesBefore(i) +
                           (IF buildErr = "EmbeddingError" THEN 0 ELSE 1)
          /\ {ids[n] : n \in 1..i} \subseteq DOMAIN collection
          /\ buildNo = 1 => DOMAIN collection = {ids[n] : n \in 1..i}
    /\ buildPc = "done" =>
          /\ {ids[n] : n \in 1..total} \subseteq DOMAIN collection
          /\ embedCalls = BatchesBefore(total + batch_size - 1)
          /\ addCalls = embedCalls

\* the embedding call failed on a later batch, earlier entries are stored
C9_Witness ==
    /\ buildPc = "raised"
    /\ buildErr = "EmbeddingError"
    /\ i > 0
    /\ collection # EmptyCollection

\* C7 (as claimed): the result is the trimmed text when it fits the
\* ceiling, else its first max_chars/2 characters, the marker, and its last
\* max_chars/2 characters.
C7_HeadMarkerTail ==
    shPc = "ret" =>
        LET s == strip(text)
            h == max_chars \div 2
        IN shortened =
             IF Len(s) <= max_chars THEN s
             ELSE SubSeq(s, 1, h) \o TRUNCATED_MARKER
                    \o SubSeq(s, Len(s) - h + 1, Len(s))

\* the ids build_index would form for a chunk list
IdsOf(cs) == [n \in 1..Len(cs) |-> ChunkId(cs[n])]

\* C6 (as claimed): the chunks of one file have pairwise distinct
\* (file_path, start_line, end_line), hence pairwise distinct ids.
C6_ChunkIdsDistinct ==
    extractPc = "done" => ~HasDuplicates(IdsOf(extracted))

\* C8 (as claimed): collecting never raises; a file that fails to parse
\* contributes no chunk.
C8_BadFileSkipped ==
    /\ collectPc # "raised"
    /\ collectPc = "done" =>
          \A n \in 1..Len(all_chunks) :
              ~\E m \in 1..Len(files) :
                  /\ files[m].has_error
                  /\ all_chunks[n].file_path = try_relative_path(files[m].path)

\* the class and function declaration nodes, in pre-order
DeclNodes(f) ==
    LET S == {n \in 1..Len(f.nodes) : f.nodes[n].type \in DeclTypes}
    IN [k \in 1..Cardinality(S) |->
          CHOOSE x \in S : Cardinality({y \in S : y < x}) = k - 1]

\* C10: the chunk list is the file chunk followed by exactly one chunk per
\* class or function declaration node, at any depth, in depth-first
\* pre-order; every method chunk comes after the chunk of a class that
\* encloses it.
C10_FileThenDeclsPreOrder ==
    extractPc = "done" =>
        LET d == DeclNodes(srcFile)
        IN /\ Len(extracted) = 1 + Len(d)
           /\ extracted[1].kind = "file"
           /\ extracted[1].start_line = 1
           /\ extracted[1].end_line = srcFile.lines
           /\ \A k \in 1..Len(d) :
                 LET ch == extracted[k + 1]
                     nd == srcFile.nodes[d[k]]
                 IN /\ ch.name = NodeName(srcFile, d[k])
                    /\ ch.code = node_text(srcFile, d[k])
                    /\ ch.start_line = nd.start_line
                    /\ ch.end_line = nd.end_line
                    /\ nd.type = "class_definition" => ch.kind = "class"
                    /\ nd.type = "function_definition" =>
                          ch.kind \in {"function", "method"}
                    /\ ch.kind = "method" =>
                          \E j \in 1..(k - 1) :
                              /\ extracted[j + 1].kind = "class"
                              /\ d[j] \in AncestorsOrSelf(srcFile.nodes, d[k])

\* a class, a method in it and a function nested in the method were emitted
C10_Witness ==
    /\ extractPc = "done"
    /\ Len(extracted) = 4
    /\ extracted[2].kind = "class"
    /\ extracted[3].kind = "method"
    /\ extracted[4].kind = "function"
    /\ srcFile.nodes[3].parent = 2

RECURSIVE NearestDecl(_, _)
\* n itself when it is a declaration, else its nearest ancestor that is
\* one, else 0
NearestDecl(nodes, n) ==
    IF n = 0 THEN 0
    ELSE IF nodes[n].type \in DeclTypes THEN n
    ELSE NearestDecl(nodes, nodes[n].parent)

\* the innermost declaration that encloses node n, or 0 at top level
EnclosingDecl(nodes, n) == NearestDecl(nodes, nodes[n].parent)

\* C11: the chunk of a function declaration is a method exactly when the
\* innermost enclosing class or function declaration is a class, and a
\* function otherwise (top level, or directly inside a function or
\* method); nodes that are no declarations, lying in between, do not
\* change this.
C11_MethodIffInnermostIsClass ==
    extractPc = "done" =>
        LET d == DeclNodes(srcFile)
        IN /\ Len(extracted) = 1 + Len(d)
           /\ \A k \in 1..Len(d) :
                 srcFile.nodes[d[k]].type = "function_definition" =>
                   LET e == EnclosingDecl(srcFile.nodes, d[k])
                       inClass == /\ e # 0
                                  /\ srcFile.nodes[e].type = "class_definition"
                   IN extracted[k + 1].kind =
                        IF inClass THEN "method" ELSE "function"

\* a function separated from its class by a node that is no declaration
\* came out as a method
C11_Witness ==
    /\ extractPc = "done"
    /\ Len(srcFile.nodes) = 3
    /\ srcFile.nodes[1].type = "class_definition"
    /\ srcFile.nodes[2].type = "other"
    /\ srcFile.nodes[2].parent = 1
    /\ srcFile.nodes[3].type = "function_definition"
    /\ srcFile.nodes[3].parent = 2
    /\ extracted[3].kind = "method"

\* C12 (as claimed): after a build that completes, the set of stored ids
\* equals the set of ids of its chunk list.
C12_StoredIdsEqualChunkIds ==
    buildPc = "done" => DOMAIN collection = {ids[n] : n \in 1..total}

\* the entry build_index forms for chunk ch
EntryOf(ch) ==
    [document |-> shorten_for_embedding(ch.code, MAX_CHARS_FOR_EMBEDDING),
     metadata |-> ChunkMeta(ch),
     embedding |-> embed_text(shorten_for_embedding(ch.code,
                                                    MAX_CHARS_FOR_EMBEDDING))]

\* C12 (amended): a build in which no embedding call and no store write
\* fails handles ceil(n/b) batches in list order, one embedding call and
\* one store write each; batch number j holds chunks (j-1)*b+1 .. j*b, so
\* every chunk is in exactly one batch, and within a write the id,
\* document, metadata and embedding at one position come from one chunk.
\* Afterwards every chunk id is stored; the stored ids are exactly the
\* chunk ids when the collection was empty before the build, and else the
\* ids of earlier builds are kept as well.  With n = 0 no batch is handled
\* and the build raises at its last line.
C12_BatchesInListOrder ==
    /\ [](buildPc \in {"loop", "done"} =>
            /\ embedCalls = addCalls
            /\ i = embedCalls * batch_size
            /\ {ids[n] : n \in 1..Min2(i, total)} \subseteq DOMAIN collection
            /\ buildNo = 1 =>
                  DOMAIN collection = {ids[n] : n \in 1..Min2(i, total)})
    /\ [](buildPc = "done" =>
            /\ total >= 1
            /\ embedCalls = (total + batch_size - 1) \div batch_size)
    /\ [](buildErr = "UnboundLocalError" =>
            /\ total = 0
            /\ embedCalls = 0
            /\ addCalls = 0)
    /\ [][(buildPc = "loop" /\ buildPc' = "loop" /\ i' # i) =>
            /\ i' = i + batch_size
            /\ embedCalls' = embedCalls + 1
            /\ addCalls' = addCalls + 1
            /\ Len(batch_ids) = Min2(batch_size, total - i)
            /\ \A n \in 1..Len(batch_ids) :
                  /\ batch_ids[n] = ChunkId(chunks[i + n])
                  /\ batch_ids[n] \in DOMAIN collection'
                  /\ batch_ids[n] \notin DOMAIN collection =>
                        collection'[batch_ids[n]] = EntryOf(chunks[i + n])]_vars

\* three chunks were built in two batches, the second one short
C12_Witness ==
    /\ buildPc = "done"
    /\ total = 3
    /\ batch_size = 2
    /\ embedCalls = 2
    /\ addCalls = 2

====
